---- MODULE Spec2Model ----
(***************************************************************************)
(* Two-channel square-wave synthesizer (src/gb.py, the `keyboard` variant, *)
(* and src/2gb.py, the `pynput` variant).                                  *)
(*                                                                         *)
(* Three threads share the module globals: the control thread (module body *)
(* of gb.py, main() of 2gb.py), the key-event thread of the input library  *)
(* and the render thread of the audio stream.                              *)
(*                                                                         *)
(* Numbers are kept exact by scaling:                                      *)
(*   - a frequency is an integer number of hundredths of a hertz;          *)
(*   - a phase is an integer number of units of 2*pi/(SAMPLE_RATE*100),    *)
(*     so that phase_increment = frequency*2*pi/SAMPLE_RATE is exactly     *)
(*     `frequency` units and 2*pi is TwoPi units;                          *)
(*   - a sample is an integer number of tenths (AMPLITUDE 0.5 is 5).       *)
(***************************************************************************)
EXTENDS Integers, Sequences, FiniteSets, TLC

\* ---------------------------------------------------------------- bounds
\* Largest number of render callbacks and of key events of one run.
MaxBlocks == 2
MaxEvents == 3
\* Largest block length of the oscillator harness.
MaxOscLen == 3
\* The block length of the stream (blocksize=1024 in the sources, scaled
\* down; one block still spans half a period of the model's channel 2 key,
\* two blocks a whole period of it and half a period of the channel 1 keys).
BlockSize == 44

\* ------------------------------------------------------ program constants
SAMPLE_RATE == 44100
AMPLITUDE == 5
ClipLo == -10
ClipHi == 10
Int16Scale == 32767
TwoPi == SAMPLE_RATE * 100
Pi == TwoPi \div 2

\* Note maps, frequencies in hundredths of a hertz.
CHANNEL1_NOTES ==
  [a |-> 26163, s |-> 29366, d |-> 32963, f |-> 34923,
   g |-> 39200, h |-> 44000, j |-> 49388]
CHANNEL2_NOTES ==
  [z |-> 52325, x |-> 58733, c |-> 65926, v |-> 69846,
   b |-> 78399, n |-> 88000, m |-> 98777]

Channels == {1, 2}
NOTES(c) == IF c = 1 THEN CHANNEL1_NOTES ELSE CHANNEL2_NOTES

\* The key identities of the model: two keys of channel 1, one of channel 2,
\* the shifted character A (in no note map as it is), the quit character and
\* the ESC special key (a key object without a char attribute).
Keys == {"a", "s", "z", "A", "q", "esc"}
Transitions == {"down", "up"}
\* The stream is opened with a fixed blocksize, so every callback gets it as
\* its `frames` argument.
Frames == {BlockSize}

\* hasattr(key, 'char'): special keys such as Key.esc carry no char.
HasChar(k) == k # "esc"
\* str.lower() on the characters of the model.
Lower(k) == IF k = "A" THEN "a" ELSE k

VARIABLES
  variant,      \* "gb" (keyboard library) or "2gb" (pynput)
  ctl,          \* position of the control thread
  QUIT_FLAG,
  active, frequency, phase,   \* ChannelState fields, per channel
  lock,         \* ChannelState.lock, per channel: "free" or its holder
  WAV_BUFFER,
  stream,       \* "new", "active", "closed"
  listener,     \* "off", "running", "stopped"
  rpc,          \* position of the render thread inside audio_callback
  frames,       \* the frames argument of the callback in progress, else 0
  output,       \* the callback's local block, <<>> outside a callback
  outdata,      \* the block last handed to the device
  evpc,         \* position of the event thread inside a handler
  ev,           \* the event being handled: [key, type, ch]
  held,         \* keys physically down (the library's pressed-key table)
  wavFile,      \* samples of gameboy_audio.wav
  fileWrites,   \* number of wav.write calls
  outcome,      \* message printed by the flush: "none", "saved", "nodata"
  nBlocks,      \* render callbacks started
  nEvents,      \* key events delivered
  hist,         \* history of the run, read by the properties only
  osc           \* oscillator harness, used by SpecOsc only

vars == <<variant, ctl, QUIT_FLAG, active, frequency, phase, lock, WAV_BUFFER,
          stream, listener, rpc, frames, output, outdata, evpc, ev, held,
          wavFile, fileWrites, outcome, nBlocks, nEvents, hist, osc>>

chanVars == <<active, frequency, phase, lock>>
renderVars == <<rpc, frames, output, outdata, WAV_BUFFER, nBlocks>>
eventVars == <<evpc, ev, held, nEvents>>
ctlVars == <<ctl, stream, wavFile, fileWrites, outcome>>

\* ------------------------------------------------------------- oscillator
Zeros(n) == [i \in 1..n |-> 0]

\* Variant: the returned phase is that of the block's last sample, not of the
\* sample after it.
GenerateSquareWave_LastSample(freq, ph, n) ==
  [wave |-> [i \in 1..n |->
               IF (ph + (i - 1) * freq) % TwoPi < Pi THEN AMPLITUDE ELSE -AMPLITUDE],
   new_phase |-> (ph + (n - 1) * freq) % TwoPi]

\* Variant: the returned phase is not reduced modulo 2 pi.
GenerateSquareWave_NoWrap(freq, ph, n) ==
  [wave |-> [i \in 1..n |->
               IF (ph + (i - 1) * freq) % TwoPi < Pi THEN AMPLITUDE ELSE -AMPLITUDE],
   new_phase |-> ph + n * freq]

\* generate_square_wave(frequency, phase, n_samples) -> (wave, new_phase)
GenerateSquareWave(freq, ph, n) ==
  [wave |-> [i \in 1..n |->
               IF (ph + (i - 1) * freq) % TwoPi < Pi THEN AMPLITUDE ELSE -AMPLITUDE],
   new_phase |-> (ph + n * freq) % TwoPi]

\* output += wave
AddBlock(x, y) == [i \in 1..Len(x) |-> x[i] + y[i]]

\* np.clip(x, -1.0, 1.0)
Clip(x) == IF x < ClipLo THEN ClipLo ELSE IF x > ClipHi THEN ClipHi ELSE x
ClipBlock(b) == [i \in 1..Len(b) |-> Clip(b[i])]

\* (x * 32767).astype(np.int16): the fraction is truncated toward zero.
ToInt16(x) ==
  IF x >= 0 THEN (x * Int16Scale) \div 10 ELSE -(((-x) * Int16Scale) \div 10)


\* --------------------------------------------------------- key dispatching
\* The channel whose state a handler call touches for key k, 0 for none.
\* gb.py: the two hooks look event.name up in their own dict as it is.
\* 2gb.py: on_press/on_release look key.char.lower() up, and only for keys
\* that have a char attribute.
KeyChannel(v, k) ==
  LET name == IF v = "gb" THEN k ELSE Lower(k)
  IN  IF v = "2gb" /\ ~HasChar(k) THEN 0
      ELSE IF name \in DOMAIN CHANNEL1_NOTES THEN 1
      ELSE IF name \in DOMAIN CHANNEL2_NOTES THEN 2
      ELSE 0

\* Variant: the press stores the first note of the channel's map.
NoteFreq_FirstNote(v, c, k) ==
  IF c = 1 THEN CHANNEL1_NOTES["a"] ELSE CHANNEL2_NOTES["z"]

\* The frequency a press stores: notes_dict.get(event.name) in gb.py,
\* CHANNELn_NOTES[key_char] in 2gb.py.
NoteFreq(v, c, k) == IF v = "gb" THEN NOTES(c)[k] ELSE NOTES(c)[Lower(k)]

\* Whether on_press of 2gb.py sets QUIT_FLAG for key k.  The branch for ESC
\* sits in the except clause, which runs only when the try block raised; a
\* key without a char attribute skips the try body without raising.
OnPressQuits(k) == IF HasChar(k) THEN Lower(k) = "q" ELSE FALSE

\* Variant: a release leaves the channel active.
HandlerActive_Always(t) == TRUE

\* The value `active` gets from a handler: True on down, False on up.
HandlerActive(t) == (t = "down")

\* Return value of on_release (2gb.py): `not QUIT_FLAG`; pynput stops the
\* listener when a callback returns False.
OnReleaseReturn(q) == ~q
ListenerAfterReturn(v, t, q, l) ==
  IF v = "2gb" /\ t = "up" /\ ~OnReleaseReturn(q) THEN "stopped" ELSE l

\* ------------------------------------------------------------ render steps
\* Variant: the callback tests the frequency only, not the active flag.
RenderChannel_IgnoreActive(act, freq, ph, n) ==
  IF freq > 0
    THEN GenerateSquareWave(freq, ph, n)
    ELSE [wave |-> Zeros(n), new_phase |-> ph]

\* Variant: a block that finds the channel inactive sets its phase back to 0.
RenderChannel_ResetWhenSilent(act, freq, ph, n) ==
  IF act /\ freq > 0
    THEN GenerateSquareWave(freq, ph, n)
    ELSE [wave |-> Zeros(n), new_phase |-> 0]

\* One channel's part of audio_callback, under the channel's lock.
RenderChannel(act, freq, ph, n) ==
  IF act /\ freq > 0
    THEN GenerateSquareWave(freq, ph, n)
    ELSE [wave |-> Zeros(n), new_phase |-> ph]

\* The same part in a system that has this channel only: hist.iso[c] is the
\* state of the one-channel system of channel c, fed the events of its keys.
IsoRender(st, n) ==
  IF st.active /\ st.frequency > 0
    THEN GenerateSquareWave(st.frequency, st.phase, n)
    ELSE [wave |-> Zeros(n), new_phase |-> st.phase]

\* Variant: output = wave.
Mix_Overwrite(out, wave) == wave

\* output += wave
Mix(out, wave) == AddBlock(out, wave)

\* Variant: silent blocks are not captured.
Capture_SkipSilent(buf, block) ==
  IF \A i \in 1..Len(block) : block[i] = 0 THEN buf ELSE buf \o block

\* WAV_BUFFER.extend(output.tolist())
Capture(buf, block) == buf \o block

\* Variant: the block is attenuated on its way to the device, the captured
\* block is not.
SendBlock_Attenuated(block) == [i \in 1..Len(block) |-> block[i] \div 2]

\* outdata[:] = output.reshape(-1, 1)
SendBlock(block) == block

\* Variant: the file is written also when the buffer is empty.
Flush_AlwaysWrite(buf) ==
  [write |-> TRUE, outcome |-> "saved",
   data |-> [i \in 1..Len(buf) |-> ToInt16(Clip(buf[i]))]]

\* Variant: a buffer of silence counts as no data.
Flush_SilenceIsNoData(buf) ==
  IF \E i \in 1..Len(buf) : buf[i] # 0
    THEN [write |-> TRUE, outcome |-> "saved",
          data |-> [i \in 1..Len(buf) |-> ToInt16(Clip(buf[i]))]]
    ELSE [write |-> FALSE, outcome |-> "nodata", data |-> <<>>]

\* The flush at shutdown: what is written and what is reported.
Flush(buf) ==
  IF buf # <<>>
    THEN [write |-> TRUE, outcome |-> "saved",
          data |-> [i \in 1..Len(buf) |-> ToInt16(Clip(buf[i]))]]
    ELSE [write |-> FALSE, outcome |-> "nodata", data |-> <<>>]

\* The process is running: after the control thread has ended (normally or
\* by an uncaught exception) no thread of the process takes a step.
Alive == ctl \notin {"terminated", "aborted"}

\* -------------------------------------------------------------------- Init
HistInit ==
  [framesDone |-> 0,
   silentSince |-> [c \in Channels |-> FALSE],
   startSilent |-> [c \in Channels |-> FALSE],
   everPressed |-> FALSE,
   iso |-> [c \in Channels |-> [active |-> FALSE, frequency |-> 0, phase |-> 0]],
   isoSum |-> <<>>]

OscIdle == [stage |-> "off"]

MainInit ==
  /\ variant \in {"gb", "2gb"}
  /\ ctl = IF variant = "gb" THEN "hook" ELSE "start"
  /\ QUIT_FLAG = FALSE
  /\ active = [c \in Channels |-> FALSE]
  /\ frequency = [c \in Channels |-> 0]
  /\ phase = [c \in Channels |-> 0]
  /\ lock = [c \in Channels |-> "free"]
  /\ WAV_BUFFER = <<>>
  /\ stream = "new"
  /\ listener = "off"
  /\ rpc = "idle"
  /\ frames = 0
  /\ output = <<>>
  /\ outdata = <<>>
  /\ evpc = "idle"
  /\ ev = [key |-> "", type |-> "", ch |-> 0]
  /\ held = {}
  /\ wavFile = <<>>
  /\ fileWrites = 0
  /\ outcome = "none"
  /\ nBlocks = 0
  /\ nEvents = 0
  /\ hist = HistInit

Init == MainInit /\ osc = OscIdle

\* ------------------------------------------------------------ event thread
\* A key event reaches the handlers.  For a key of a note map the handler
\* goes on to take the channel's lock; for any other key the handler call
\* runs to its end here.  A key goes up only after it went down; a key that
\* is down may send further down events (auto-repeat).
EvDeliver(k, t) ==
  /\ Alive /\ listener = "running" /\ evpc = "idle" /\ nEvents < MaxEvents
  /\ (t = "up" => k \in held)
  /\ LET ch == KeyChannel(variant, k)
         q == IF variant = "2gb" /\ t = "down" /\ ch = 0
                THEN QUIT_FLAG \/ OnPressQuits(k) ELSE QUIT_FLAG
     IN  /\ ev' = [key |-> k, type |-> t, ch |-> ch]
         /\ held' = IF t = "down" THEN held \cup {k} ELSE held \ {k}
         /\ nEvents' = nEvents + 1
         /\ QUIT_FLAG' = q
         /\ evpc' = IF ch = 0 THEN "idle" ELSE "acquire"
         /\ listener' = IF ch = 0 THEN ListenerAfterReturn(variant, t, q, listener)
                        ELSE listener
         /\ hist' = IF ch # 0 /\ t = "down"
                      THEN [hist EXCEPT !.everPressed = TRUE,
                                        !.silentSince[ch] = FALSE]
                      ELSE hist
  /\ UNCHANGED <<variant, chanVars, renderVars, ctlVars, osc>>

\* Variant: the handler writes the channel without taking its lock.
EvAcquire_NoLock ==
  /\ Alive /\ evpc = "acquire"
  /\ evpc' = "set_active"
  /\ hist' = [hist EXCEPT !.iso[ev.ch] =
                IF ev.type = "down"
                  THEN [@ EXCEPT !.active = TRUE,
                                 !.frequency = NOTES(ev.ch)[Lower(ev.key)]]
                  ELSE [@ EXCEPT !.active = FALSE]]
  /\ UNCHANGED <<variant, ctl, QUIT_FLAG, active, frequency, phase, lock,
                 renderVars, stream, listener, ev, held, nEvents, wavFile,
                 fileWrites, outcome, osc>>

\* with channel.lock:
EvAcquire ==
  /\ Alive /\ evpc = "acquire" /\ lock[ev.ch] = "free"
  /\ lock' = [lock EXCEPT ![ev.ch] = "event"]
  /\ evpc' = "set_active"
  /\ hist' = [hist EXCEPT !.iso[ev.ch] =
                IF ev.type = "down"
                  THEN [@ EXCEPT !.active = TRUE,
                                 !.frequency = NOTES(ev.ch)[Lower(ev.key)]]
                  ELSE [@ EXCEPT !.active = FALSE]]
  /\ UNCHANGED <<variant, ctl, QUIT_FLAG, active, frequency, phase, renderVars,
                 stream, listener, ev, held, nEvents, wavFile, fileWrites,
                 outcome, osc>>

\* What the return of a handler call does to the rest of the state: the lock
\* is released, the listener may be stopped by the return value.
EvReturn ==
  /\ lock' = [lock EXCEPT ![ev.ch] = "free"]
  /\ evpc' = "idle"
  /\ listener' = ListenerAfterReturn(variant, ev.type, QUIT_FLAG, listener)
  /\ hist' = IF ev.type = "up"
               THEN [hist EXCEPT !.silentSince[ev.ch] = TRUE]
               ELSE hist

\* Variant: a release silences both channels.
EvSetActive_MuteAll ==
  /\ Alive /\ evpc = "set_active"
  /\ active' = IF ev.type = "down"
                 THEN [active EXCEPT ![ev.ch] = TRUE]
                 ELSE [c \in Channels |-> FALSE]
  /\ IF ev.type = "down"
       THEN /\ evpc' = "set_frequency"
            /\ UNCHANGED <<lock, listener, hist>>
       ELSE EvReturn
  /\ UNCHANGED <<variant, ctl, QUIT_FLAG, frequency, phase, renderVars,
                 stream, ev, held, nEvents, wavFile, fileWrites, outcome, osc>>

\* channel.active = True / channel.active = False; on a release this is the
\* last statement of the with block and the handler returns.
EvSetActive ==
  /\ Alive /\ evpc = "set_active"
  /\ active' = [active EXCEPT ![ev.ch] = HandlerActive(ev.type)]
  /\ IF ev.type = "down"
       THEN /\ evpc' = "set_frequency"
            /\ UNCHANGED <<lock, listener, hist>>
       ELSE EvReturn
  /\ UNCHANGED <<variant, ctl, QUIT_FLAG, frequency, phase, renderVars,
                 stream, ev, held, nEvents, wavFile, fileWrites, outcome, osc>>

\* channel.frequency = freq, the last statement of the with block of a
\* press; the handler returns.
EvSetFrequency ==
  /\ Alive /\ evpc = "set_frequency"
  /\ frequency' = [frequency EXCEPT ![ev.ch] = NoteFreq(variant, ev.ch, ev.key)]
  /\ EvReturn
  /\ UNCHANGED <<variant, ctl, QUIT_FLAG, active, phase, renderVars,
                 stream, ev, held, nEvents, wavFile, fileWrites, outcome, osc>>

\* ----------------------------------------------------------- render thread
RpcAcquire(c) == IF c = 1 THEN "acquire1" ELSE "acquire2"
RpcProcess(c) == IF c = 1 THEN "process1" ELSE "process2"
\* Channel 1 is processed first, then channel 2, then the block is clipped.
RpcAfter(c) == IF c = 1 THEN RpcAcquire(2) ELSE "clip"

\* The stream calls audio_callback(outdata, frames, ...):
\* output = np.zeros(frames).
RStart(n) ==
  /\ Alive /\ stream = "active" /\ rpc = "idle" /\ nBlocks < MaxBlocks
  /\ frames' = n
  /\ output' = Zeros(n)
  /\ rpc' = RpcAcquire(1)
  /\ nBlocks' = nBlocks + 1
  /\ hist' = [hist EXCEPT !.startSilent = hist.silentSince,
                          !.isoSum = Zeros(n)]
  /\ UNCHANGED <<variant, ctl, QUIT_FLAG, chanVars, WAV_BUFFER, outdata, stream,
                 listener, eventVars, wavFile, fileWrites, outcome, osc>>

\* with CHc.lock:
RAcquire(c) ==
  /\ Alive /\ rpc = RpcAcquire(c) /\ lock[c] = "free"
  /\ lock' = [lock EXCEPT ![c] = "render"]
  /\ rpc' = RpcProcess(c)
  /\ UNCHANGED <<variant, ctl, QUIT_FLAG, active, frequency, phase, WAV_BUFFER,
                 frames, output, outdata, nBlocks, stream, listener, eventVars,
                 wavFile, fileWrites, outcome, hist, osc>>

\* Variant: channel 1's lock is kept until the end of channel 2's block.
RProcess_Nested(c) ==
  /\ Alive /\ rpc = RpcProcess(c)
  /\ LET r == RenderChannel(active[c], frequency[c], phase[c], frames)
         i == IsoRender(hist.iso[c], frames)
     IN  /\ output' = Mix(output, r.wave)
         /\ phase' = [phase EXCEPT ![c] = r.new_phase]
         /\ hist' = [hist EXCEPT !.isoSum = AddBlock(@, i.wave),
                                 !.iso[c].phase = i.new_phase]
  /\ lock' = IF c = 1 THEN lock ELSE [k \in Channels |-> "free"]
  /\ rpc' = RpcAfter(c)
  /\ UNCHANGED <<variant, ctl, QUIT_FLAG, active, frequency, WAV_BUFFER, frames,
                 outdata, nBlocks, stream, listener, eventVars, wavFile,
                 fileWrites, outcome, osc>>

\* The body of the with block of channel c and the release of its lock.
RProcess(c) ==
  /\ Alive /\ rpc = RpcProcess(c)
  /\ LET r == RenderChannel(active[c], frequency[c], phase[c], frames)
         i == IsoRender(hist.iso[c], frames)
     IN  /\ output' = Mix(output, r.wave)
         /\ phase' = [phase EXCEPT ![c] = r.new_phase]
         /\ hist' = [hist EXCEPT !.isoSum = AddBlock(@, i.wave),
                                 !.iso[c].phase = i.new_phase]
  /\ lock' = [lock EXCEPT ![c] = "free"]
  /\ rpc' = RpcAfter(c)
  /\ UNCHANGED <<variant, ctl, QUIT_FLAG, active, frequency, WAV_BUFFER, frames,
                 outdata, nBlocks, stream, listener, eventVars, wavFile,
                 fileWrites, outcome, osc>>

\* np.clip(output, -1.0, 1.0); WAV_BUFFER.extend(output.tolist());
\* outdata[:] = output.reshape(-1, 1); the callback returns.
RCapture ==
  /\ Alive /\ rpc = "clip"
  /\ LET clipped == ClipBlock(output)
     IN  /\ WAV_BUFFER' = Capture(WAV_BUFFER, clipped)
         /\ outdata' = SendBlock(clipped)
  /\ output' = <<>>
  /\ frames' = 0
  /\ rpc' = "idle"
  /\ hist' = [hist EXCEPT !.framesDone = @ + frames,
                          !.startSilent = [c \in Channels |-> FALSE],
                          !.isoSum = <<>>]
  /\ UNCHANGED <<variant, ctl, QUIT_FLAG, chanVars, nBlocks,
                 stream, listener, eventVars, wavFile, fileWrites, outcome, osc>>

\* ---------------------------------------------------------- control thread
\* Where the control thread goes when it leaves the polling loop, and the
\* order of the cleanup steps of each variant:
\*   gb.py   stream.stop(); stream.close(); keyboard.unhook_all(); flush
\*   2gb.py  listener.stop(); stream.stop(); stream.close(); flush
AfterLoop(v) == IF v = "gb" THEN "stop_stream" ELSE "stop_listener"
AfterClose(v) == IF v = "gb" THEN "unhook" ELSE "flush"

\* What an external interrupt (KeyboardInterrupt) in the polling loop leads
\* to: 2gb.py catches it, sets QUIT_FLAG and runs its finally block; gb.py
\* has no handler, the exception ends the script.
AfterInterrupt(v) == IF v = "gb" THEN "aborted" ELSE AfterLoop(v)

\* keyboard.is_pressed(k)
IsPressed(k) == k \in held

\* gb.py: keyboard.hook(...) twice, before the stream is started.
CtlHook ==
  /\ ctl = "hook"
  /\ listener' = "running"
  /\ ctl' = "start"
  /\ UNCHANGED <<variant, QUIT_FLAG, chanVars, renderVars, stream, eventVars,
                 wavFile, fileWrites, outcome, hist, osc>>

\* stream.start()
CtlStreamStart ==
  /\ ctl = "start"
  /\ stream' = "active"
  /\ ctl' = IF variant = "gb" THEN "loop" ELSE "listen"
  /\ UNCHANGED <<variant, QUIT_FLAG, chanVars, renderVars, listener, eventVars,
                 wavFile, fileWrites, outcome, hist, osc>>

\* 2gb.py: listener = keyboard.Listener(...); listener.start()
CtlListenerStart ==
  /\ ctl = "listen"
  /\ listener' = "running"
  /\ ctl' = "loop"
  /\ UNCHANGED <<variant, QUIT_FLAG, chanVars, renderVars, stream, eventVars,
                 wavFile, fileWrites, outcome, hist, osc>>

\* One turn of the polling loop.
\*   gb.py   while not QUIT_FLAG: if keyboard.is_pressed('q'): QUIT_FLAG = True
\*   2gb.py  while not QUIT_FLAG: sleep(0.1)
\* In gb.py the control thread is the only writer of QUIT_FLAG.
CtlPoll ==
  /\ ctl = "loop"
  /\ IF QUIT_FLAG
       THEN ctl' = AfterLoop(variant) /\ UNCHANGED QUIT_FLAG
       ELSE /\ ctl' = "loop"
            /\ QUIT_FLAG' = IF variant = "gb" THEN IsPressed("q") ELSE QUIT_FLAG
  /\ UNCHANGED <<variant, chanVars, renderVars, stream, listener,
                 eventVars, wavFile, fileWrites, outcome, hist, osc>>

\* An external interrupt reaches the control thread in its polling loop.
CtlInterrupt ==
  /\ ctl = "loop"
  /\ ctl' = AfterInterrupt(variant)
  /\ QUIT_FLAG' = IF variant = "2gb" THEN TRUE ELSE QUIT_FLAG
  /\ UNCHANGED <<variant, chanVars, renderVars, stream, listener, eventVars,
                 wavFile, fileWrites, outcome, hist, osc>>

\* 2gb.py: if listener.is_alive(): listener.stop()
CtlStopListener ==
  /\ ctl = "stop_listener"
  /\ listener' = "stopped"
  /\ ctl' = "stop_stream"
  /\ UNCHANGED <<variant, QUIT_FLAG, chanVars, renderVars, stream, eventVars,
                 wavFile, fileWrites, outcome, hist, osc>>

\* Variant: the stream is closed without waiting for the callback in
\* progress.
CtlStreamStop_NoWait ==
  /\ ctl = "stop_stream"
  /\ stream' = "closed"
  /\ ctl' = AfterClose(variant)
  /\ UNCHANGED <<variant, QUIT_FLAG, chanVars, renderVars, listener, eventVars,
                 wavFile, fileWrites, outcome, hist, osc>>

\* stream.stop(); stream.close().  stop() returns once the callback in
\* progress has returned, and no callback starts after it.
CtlStreamStop ==
  /\ ctl = "stop_stream" /\ rpc = "idle"
  /\ stream' = "closed"
  /\ ctl' = AfterClose(variant)
  /\ UNCHANGED <<variant, QUIT_FLAG, chanVars, renderVars, listener, eventVars,
                 wavFile, fileWrites, outcome, hist, osc>>

\* gb.py: keyboard.unhook_all()
CtlUnhook ==
  /\ ctl = "unhook"
  /\ listener' = "stopped"
  /\ ctl' = "flush"
  /\ UNCHANGED <<variant, QUIT_FLAG, chanVars, renderVars, stream, eventVars,
                 wavFile, fileWrites, outcome, hist, osc>>

\* if WAV_BUFFER: ... wav.write(...); print saved  else: print no data
CtlFlush ==
  /\ ctl = "flush"
  /\ LET r == Flush(WAV_BUFFER)
     IN  /\ wavFile' = IF r.write THEN r.data ELSE wavFile
         /\ fileWrites' = IF r.write THEN fileWrites + 1 ELSE fileWrites
         /\ outcome' = r.outcome
  /\ ctl' = "terminated"
  /\ UNCHANGED <<variant, QUIT_FLAG, chanVars, renderVars, stream, listener,
                 eventVars, hist, osc>>

\* -------------------------------------------------------------------- Next
EventStep ==
  \/ \E k \in Keys, t \in Transitions : EvDeliver(k, t)
  \/ EvAcquire
  \/ EvSetActive
  \/ EvSetFrequency

RenderStep ==
  \/ \E n \in Frames : RStart(n)
  \/ \E c \in Channels : RAcquire(c)
  \/ \E c \in Channels : RProcess(c)
  \/ RCapture

ControlStep ==
  \/ CtlHook
  \/ CtlStreamStart
  \/ CtlListenerStart
  \/ CtlPoll
  \/ CtlInterrupt
  \/ CtlStopListener
  \/ CtlStreamStop
  \/ CtlUnhook
  \/ CtlFlush

Next == EventStep \/ RenderStep \/ ControlStep

Spec == Init /\ [][Next]_vars


\* ------------------------------------------------------ oscillator harness
\* generate_square_wave called on its own: once for n1 samples, again for n2
\* samples with the phase the first call returned, and once for n1 + n2
\* samples from the same start.
\* Frequencies (hundredths of a hertz): two notes, and frequencies near and
\* above the sample rate's fractions, so that short blocks change sign.
OscFreqs ==
  {CHANNEL1_NOTES["a"], CHANNEL2_NOTES["m"], TwoPi \div 4 + 1, TwoPi \div 3,
   Pi, TwoPi - 1, TwoPi + 7}
\* Start phases in [0, 2*pi).
OscPhases == {0, 1, Pi \div 2, Pi - 1, Pi, Pi + 12345, TwoPi - 1}
OscLens == 1..MaxOscLen
NoBlock == [wave |-> <<>>, new_phase |-> 0]

InitOsc ==
  /\ MainInit
  /\ osc \in [stage : {"start"}, f : OscFreqs, p : OscPhases,
               n1 : OscLens, n2 : OscLens,
               first : {NoBlock}, second : {NoBlock}, whole : {NoBlock}]

OscFirst ==
  /\ osc.stage = "start"
  /\ osc' = [osc EXCEPT !.stage = "first",
                        !.first = GenerateSquareWave(osc.f, osc.p, osc.n1)]
  /\ UNCHANGED <<variant, QUIT_FLAG, chanVars, renderVars, listener, eventVars,
                 ctlVars, hist>>

OscSecond ==
  /\ osc.stage = "first"
  /\ osc' = [osc EXCEPT !.stage = "second",
                        !.second = GenerateSquareWave(osc.f, osc.first.new_phase,
                                                      osc.n2)]
  /\ UNCHANGED <<variant, QUIT_FLAG, chanVars, renderVars, listener, eventVars,
                 ctlVars, hist>>

OscWhole ==
  /\ osc.stage = "second"
  /\ osc' = [osc EXCEPT !.stage = "done",
                        !.whole = GenerateSquareWave(osc.f, osc.p,
                                                     osc.n1 + osc.n2)]
  /\ UNCHANGED <<variant, QUIT_FLAG, chanVars, renderVars, listener, eventVars,
                 ctlVars, hist>>

NextOsc == OscFirst \/ OscSecond \/ OscWhole

SpecOsc == InitOsc /\ [][NextOsc]_vars

\* ================================================================== claims
IsPrefix(x, y) == x = y \/ (Len(x) <= Len(y) /\ SubSeq(y, 1, Len(x)) = x)
AllZero(b) == \A i \in 1..Len(b) : b[i] = 0

\* C1 (capture completeness): in every state the length of WAV_BUFFER is the
\* sum of the block lengths of the render callbacks completed so far, silent
\* or not, and every step leaves the old buffer as a prefix of the new one
\* (stated of both states of every step, which covers every reachable state).
C1_CaptureComplete ==
  [][/\ Len(WAV_BUFFER) = hist.framesDone
     /\ Len(WAV_BUFFER') = hist'.framesDone
     /\ IsPrefix(WAV_BUFFER, WAV_BUFFER')]_vars

\* Two callbacks have completed, one silent and one sounding.
C1_Witness ==
  /\ rpc = "idle" /\ nBlocks = 2
  /\ Len(WAV_BUFFER) = 2 * BlockSize
  /\ AllZero(SubSeq(WAV_BUFFER, 1, BlockSize))
  /\ ~AllZero(SubSeq(WAV_BUFFER, BlockSize + 1, 2 * BlockSize))

\* C2 (silence on release): when a callback started after the release
\* handler of a key of channel c had completed, and no press of a key of
\* channel c has been handled since, the callback's step for channel c adds
\* nothing to the block; when this is so for both channels the block handed
\* to the device and appended to the buffer is all zero.
C2_SilenceOnRelease ==
  [][/\ \A c \in Channels :
          (/\ rpc = RpcProcess(c) /\ rpc' = RpcAfter(c)
           /\ hist.startSilent[c] /\ hist.silentSince[c])
          => output' = output
     /\ (/\ rpc = "clip" /\ rpc' = "idle"
         /\ \A c \in Channels : hist.startSilent[c] /\ hist.silentSince[c])
        => /\ AllZero(outdata') /\ Len(outdata') = frames
           /\ WAV_BUFFER' = WAV_BUFFER \o outdata']_vars

\* The callback is about to process channel 1, which sounded in an earlier
\* block (its phase has moved) and was released before this callback began.
C2_Witness ==
  /\ rpc = RpcProcess(1)
  /\ hist.startSilent[1] /\ hist.silentSince[1]
  /\ frequency[1] > 0 /\ phase[1] # 0

\* C3 (last writer wins): when the press handler of a key k of channel c's
\* note map has returned, the channel is active and its frequency is the
\* note map's value for k, whatever the channel held before.
C3_LastWriterWins ==
  \A c \in Channels :
    (evpc = "idle" /\ ev.type = "down" /\ ev.key \in DOMAIN NOTES(c))
    => active[c] /\ frequency[c] = NOTES(c)[ev.key]

\* Key s was pressed while key a of the same channel is still down.
C3_Witness ==
  /\ evpc = "idle" /\ ev.type = "down" /\ ev.key = "s"
  /\ "a" \in held
  /\ active[1] /\ frequency[1] = CHANNEL1_NOTES["s"]

\* C4 (release quirk): when the release handler of a key of channel c's note
\* map has returned, the channel is inactive, also when the released key is
\* not the one whose frequency the channel holds and another key of the
\* channel is still down.
C4_ReleaseQuirk ==
  \A c \in Channels :
    (evpc = "idle" /\ ev.type = "up" /\ ev.key \in DOMAIN NOTES(c))
    => ~active[c]

\* press a, press s, release a: channel 1 is inactive with s still down.
C4_Witness ==
  /\ evpc = "idle" /\ ev.type = "up" /\ ev.key = "a"
  /\ "s" \in held
  /\ frequency[1] = CHANNEL1_NOTES["s"]
  /\ ~active[1]

\* C5 (shutdown ordering), as claimed: the key-event source is stopped before
\* the stream is stopped and closed, and no step changes active or frequency
\* of a channel once the stream has been stopped.
C5_ShutdownOrdering ==
  [][/\ stream' = "closed" => listener' # "running"
     /\ stream = "closed" => (active' = active /\ frequency' = frequency)]_vars

\* C6 (flush policy): the flush writes at most once; having run, it reported
\* "no data" with an empty buffer and no write, or "saved" with a non-empty
\* buffer and one write of as many samples as the buffer holds; a run that
\* reaches the end of the script has run it.
C6_FlushPolicy ==
  /\ fileWrites <= 1
  /\ outcome \in {"none", "saved", "nodata"}
  /\ outcome = "none" => fileWrites = 0 /\ wavFile = <<>>
  /\ ctl = "terminated" <=> outcome # "none"
  /\ outcome = "nodata" => WAV_BUFFER = <<>> /\ fileWrites = 0 /\ wavFile = <<>>
  /\ outcome = "saved" =>
       /\ WAV_BUFFER # <<>> /\ fileWrites = 1
       /\ Len(wavFile) = Len(WAV_BUFFER)

\* A run ended with a file of two blocks.
C6_Witness ==
  /\ ctl = "terminated" /\ outcome = "saved"
  /\ fileWrites = 1 /\ Len(wavFile) = 2 * BlockSize

\* C7 (empty session), as claimed: a run in which no key of a note map was
\* ever pressed ends with the "no data" outcome and no file, however many
\* render callbacks ran.
C7_EmptySessionNoData ==
  (ctl = "terminated" /\ ~hist.everPressed)
  => outcome = "nodata" /\ fileWrites = 0

\* C7 amended: such a run captures only zero samples; it ends with the "no
\* data" outcome and no file exactly when no render callback completed, and
\* otherwise saves a file of zeros, one sample per rendered frame.
C7_EmptySessionSilent ==
  (ctl = "terminated" /\ ~hist.everPressed)
  => /\ AllZero(WAV_BUFFER)
     /\ outcome = "nodata" <=> hist.framesDone = 0
     /\ outcome = "nodata" => fileWrites = 0
     /\ outcome # "nodata" =>
          /\ outcome = "saved" /\ fileWrites = 1
          /\ Len(wavFile) = hist.framesDone /\ AllZero(wavFile)

\* A run without a press in which the stream rendered two blocks before the
\* quit: a file of silence is saved.
C7_Witness ==
  /\ ctl = "terminated" /\ ~hist.everPressed
  /\ hist.framesDone = 2 * BlockSize
  /\ outcome = "saved"

\* C8 (interrupt equals quit), as claimed: no run ends from the polling loop
\* without the flush having run.
C8_InterruptFlushes ==
  ~Alive => outcome # "none"

\* C9 (channel independence): the block before clipping is the sample-wise
\* sum of the blocks of the two one-channel systems, and each channel's phase
\* is the phase of its one-channel system.
C9_ChannelIndependence ==
  /\ \A c \in Channels : phase[c] = hist.iso[c].phase
  /\ rpc = RpcProcess(2) => Len(output) = frames
  /\ rpc = "clip" => output = hist.isoSum

\* Both channels sound in one block: the samples add up to 1.0 where the two
\* waves agree and cancel where they differ.
C9_Witness ==
  /\ rpc = "clip" /\ active[1] /\ active[2]
  /\ \E i \in 1..Len(output) : output[i] = 2 * AMPLITUDE
  /\ \E i \in 1..Len(output) : output[i] = 0


\* C10 (phase continuity): rendering n1 samples and then n2 samples from the
\* returned phase gives, sample for sample, the n1 + n2 samples rendered in
\* one call from the same start, and the same final phase.
C10_PhaseContinuity ==
  osc.stage = "done" =>
    /\ osc.first.wave \o osc.second.wave = osc.whole.wave
    /\ osc.second.new_phase = osc.whole.new_phase
    /\ Len(osc.whole.wave) = osc.n1 + osc.n2

\* The wave changes sign exactly at the block boundary, and the phase wrapped
\* on the way.
C10_Witness ==
  /\ osc.stage = "done"
  /\ osc.first.wave[osc.n1] # osc.second.wave[1]
  /\ osc.p + (osc.n1 + osc.n2) * osc.f >= TwoPi
  /\ osc.first.new_phase # 0


\* C11 (output range): every callback that writes the output block appends
\* that same block to the capture buffer, and every sample of it is one of
\* -1.0, -0.5, 0, 0.5, 1.0, within [-1, 1]; nothing else changes either.
SampleValues == {-2 * AMPLITUDE, -AMPLITUDE, 0, AMPLITUDE, 2 * AMPLITUDE}

C11_OutputRange ==
  [][(WAV_BUFFER' # WAV_BUFFER \/ outdata' # outdata) =>
       /\ rpc = "clip"
       /\ WAV_BUFFER' = WAV_BUFFER \o outdata'
       /\ Len(outdata') = frames
       /\ \A i \in 1..Len(outdata') :
            /\ outdata'[i] \in SampleValues
            /\ ClipLo <= outdata'[i] /\ outdata'[i] <= ClipHi]_vars

\* A block in which both channels are low together (-1.0) has been sent,
\* after one in which both were high together (1.0).
C11_Witness ==
  /\ rpc = "idle" /\ nBlocks = 2
  /\ \E i \in 1..Len(outdata) : outdata[i] = ClipLo
  /\ \E i \in 1..Len(WAV_BUFFER) : WAV_BUFFER[i] = ClipHi

\* C12 (no torn state): when the render callback holds a channel's lock and
\* finds it active, the frequency it reads is positive, is a value of that
\* channel's note map, and is the frequency of the press that set active
\* (hist.iso[c] is what the handlers, taken as atomic, have written).
NoteValues(c) == {NOTES(c)[k] : k \in DOMAIN NOTES(c)}

C12_NoTornState ==
  \A c \in Channels :
    rpc = RpcProcess(c) =>
      /\ active[c] = hist.iso[c].active
      /\ active[c] =>
           /\ frequency[c] > 0
           /\ frequency[c] \in NoteValues(c)
           /\ frequency[c] = hist.iso[c].frequency

\* The callback reads channel 1, active at the frequency of a, while the
\* press handler of s waits for the channel's lock.
C12_Witness ==
  /\ rpc = RpcProcess(1) /\ active[1]
  /\ frequency[1] = CHANNEL1_NOTES["a"]
  /\ evpc = "acquire" /\ ev.type = "down" /\ ev.key = "s"

\* C13 (lock discipline): a channel's lock is held by the thread that is
\* inside the with block of that channel and by no other; the two threads are
\* never inside the with block of the same channel; the render thread holds
\* no lock while it acquires one; and the two threads never wait for each
\* other.
RenderHolds(c) == rpc = RpcProcess(c)
EventHolds(c) == evpc \in {"set_active", "set_frequency"} /\ ev.ch = c
RenderWaits(c) == rpc = RpcAcquire(c) /\ lock[c] # "free"
EventWaits(c) == evpc = "acquire" /\ ev.ch = c /\ lock[c] # "free"

C13_LockDiscipline ==
  /\ \A c \in Channels :
       /\ ~(RenderHolds(c) /\ EventHolds(c))
       /\ lock[c] = "render" <=> RenderHolds(c)
       /\ lock[c] = "event" <=> EventHolds(c)
  /\ \A c, d \in Channels :
       /\ (c # d) => ~(RenderHolds(c) /\ RenderHolds(d))
       /\ (c # d) => ~(EventHolds(c) /\ EventHolds(d))
       /\ rpc = RpcAcquire(c) => lock[d] # "render"
       /\ evpc = "acquire" => lock[d] # "event"
       /\ ~(RenderWaits(c) /\ EventWaits(d))

\* The render thread waits for channel 2's lock, held by a handler, and
\* holds no lock itself.
C13_Witness ==
  /\ RenderWaits(2) /\ EventHolds(2)
  /\ lock[1] = "free"


\* C14 (capture happens-before Flush): once the stream is stopped no callback
\* is in progress, none starts and the capture buffer does not change any
\* more; the flush runs with the stream stopped and the file it writes has
\* one sample for every sample of the final buffer.
C14_CaptureBeforeFlush ==
  [][/\ stream = "closed" =>
          /\ rpc = "idle" /\ rpc' = "idle"
          /\ WAV_BUFFER' = WAV_BUFFER
          /\ nBlocks' = nBlocks
     /\ outcome' # outcome =>
          /\ stream = "closed" /\ rpc = "idle"
          /\ WAV_BUFFER' = WAV_BUFFER
          /\ outcome' = "saved" => Len(wavFile') = Len(WAV_BUFFER)]_vars

\* The stream has been stopped after two callbacks and the flush has not
\* run yet.
C14_Witness ==
  /\ stream = "closed" /\ ctl = "flush" /\ outcome = "none"
  /\ Len(WAV_BUFFER) = 2 * BlockSize

\* C15 (event-handler frame): no step of a key handler changes a phase; a
\* handler step for a key changes active, frequency and lock only of the
\* channel whose note map holds that key, so a key of neither map (the quit
\* key among them) changes no channel field.  The key of an event is looked
\* up by its lower-case name, as 2gb.py does.
InMap(c, k) == Lower(k) \in DOMAIN NOTES(c)
HandlerStep == evpc' # evpc \/ nEvents' # nEvents

C15_HandlerFrame ==
  [][HandlerStep =>
       /\ phase' = phase
       /\ \A c \in Channels :
            ~InMap(c, ev'.key) =>
              /\ active'[c] = active[c]
              /\ frequency'[c] = frequency[c]
              /\ lock'[c] = lock[c]
       /\ ev'.key \in {"q", "esc"} => UNCHANGED chanVars]_vars

\* 2gb.py has handled a press of q while channel 2 sounds z and channel 1
\* sounds a: the flag is set and both channels are as they were.
C15_Witness ==
  /\ variant = "2gb" /\ evpc = "idle"
  /\ ev.key = "q" /\ ev.type = "down" /\ QUIT_FLAG
  /\ active[1] /\ frequency[1] = CHANNEL1_NOTES["a"]
  /\ active[2] /\ frequency[2] = CHANNEL2_NOTES["z"]

\* C16 (quit keys of 2gb.py): after on_press has handled a press of the
\* character q or of ESC, QUIT_FLAG is true.
C16_QuitKeys ==
  (/\ variant = "2gb" /\ evpc = "idle" /\ nEvents > 0
   /\ ev.type = "down" /\ ev.key \in {"q", "esc"}) => QUIT_FLAG


\* C17 (shutdown liveness): once the quit signal is true the run ends in
\* Terminated, with the flush executed: a run that has stopped with the
\* quit signal set has reached Terminated and has its flush outcome.
C17_QuitReachesTerminated ==
  (QUIT_FLAG /\ ~Alive) => (ctl = "terminated" /\ outcome # "none")

\* C18 (phase range): every stored phase lies in [0, 2 pi); it is 0 until a
\* callback has rendered; whenever it changes, the render callback has
\* stored (phase + frames * increment) mod 2 pi, so nothing resets it.
PhaseRange == 0..(TwoPi - 1)

C18_PhaseRange ==
  [][\A c \in Channels :
       /\ phase[c] \in PhaseRange /\ phase'[c] \in PhaseRange
       /\ (hist.framesDone = 0 /\ rpc = "idle") => phase[c] = 0
       /\ phase'[c] # phase[c] =>
            phase'[c] = (phase[c] + frames * frequency[c]) % TwoPi]_vars

\* Channel 2 has sounded z for two blocks and its phase has wrapped.
C18_Witness ==
  /\ rpc = "idle" /\ nBlocks = 2
  /\ 2 * BlockSize * CHANNEL2_NOTES["z"] >= TwoPi
  /\ phase[2] = 2 * BlockSize * CHANNEL2_NOTES["z"] - TwoPi

\* C19 (phase frame): a phase changes only in the render callback's block
\* of that channel and only when that block finds the channel active; a
\* block that finds it inactive, and every handler step, leave it as it is.
C19_PhaseFrame ==
  [][\A c \in Channels :
       /\ phase'[c] # phase[c] => (rpc = RpcProcess(c) /\ active[c])
       /\ (rpc = RpcProcess(c) /\ ~active[c]) => phase'[c] = phase[c]
       /\ (evpc' # evpc \/ ev' # ev) => phase'[c] = phase[c]]_vars

\* a sounded for one block and was released; s has been pressed since, and
\* the callback is about to render s from the phase the block of a left.
C19_Witness ==
  /\ rpc = RpcProcess(1) /\ active[1]
  /\ frequency[1] = CHANNEL1_NOTES["s"]
  /\ evpc = "idle" /\ ev.key = "s" /\ ev.type = "down" /\ held = {"s"}
  /\ hist.framesDone = BlockSize
  /\ phase[1] = (BlockSize * CHANNEL1_NOTES["a"]) % TwoPi
  /\ phase[1] # 0

\* C20 (listener lifetime in 2gb.py): the listener stops running only by
\* the listener.stop() of the main loop's shutdown path.
C20_ListenerLifetime ==
  [][(variant = "2gb" /\ listener = "running" /\ listener' # "running")
       => ctl = "stop_listener"]_vars

====
